---- MODULE Spec2Model ----
(***************************************************************************)
(* A model of the Tetris component of src/tetris.tsx: its React state, the *)
(* handlers that change it, and the deferred row clear that placePiece     *)
(* schedules with setTimeout.  Every handler runs to completion on the     *)
(* closure of the last committed render, so a handler is one action; the   *)
(* values a closure captured (board, currentPiece, score, level) are the   *)
(* values of the state in which the handler starts.                        *)
(***************************************************************************)
EXTENDS Integers, Sequences, FiniteSets, TLC

(***************************************************************************)
(* Bounds of the model.  The program's board is 10 x 20 (src/tetris.tsx    *)
(* lines 55-56); the model checks the same code on a smaller board.        *)
(***************************************************************************)
BOARD_WIDTH == 4
BOARD_HEIGHT == 4
\* handlers that lock a piece are explored until this many locks have happened
MaxLocks == 2
\* the reset button is pressed at most this many times
MaxResets == 1
\* the bound on the locks of the games that draw only "I" (SpecLines)
LinesMaxLocks == 6
\* checkCollision is probed on the boards with at most this many occupied
\* cells, at the origins up to ProbeMargin cells outside the board
MaxFilled == 2
ProbeMargin == 2

(***************************************************************************)
(* Program constants.                                                      *)
(***************************************************************************)
INITIAL_DROP_TIME == 800
\* points per cleared row, the delay of the clear, and the level threshold
ROW_SCORE == 100
LEVEL_SCORE == 500
CLEAR_DELAY == 300

\* SPEED_INCREASE_FACTOR = 0.95, as the fraction 19/20
SPEED_INCREASE_FACTOR == [num |-> 19, den |-> 20]

TETROMINOS ==
    [I |-> [shape |-> << <<1, 1, 1, 1>> >>, color |-> "bg-cyan-500"],
     J |-> [shape |-> << <<1, 0, 0>>, <<1, 1, 1>> >>, color |-> "bg-blue-500"],
     L |-> [shape |-> << <<0, 0, 1>>, <<1, 1, 1>> >>, color |-> "bg-orange-500"],
     O |-> [shape |-> << <<1, 1>>, <<1, 1>> >>, color |-> "bg-yellow-500"],
     S |-> [shape |-> << <<0, 1, 1>>, <<1, 1, 0>> >>, color |-> "bg-green-500"],
     T |-> [shape |-> << <<0, 1, 0>>, <<1, 1, 1>> >>, color |-> "bg-purple-500"],
     Z |-> [shape |-> << <<1, 1, 0>>, <<0, 1, 1>> >>, color |-> "bg-red-500"]]

\* Object.keys(TETROMINOS)
Keys == {"I", "J", "L", "O", "S", "T", "Z"}

\* createEmptyBoard: BOARD_HEIGHT rows of BOARD_WIDTH zeros; row y of the code
\* is element y + 1 of the sequence, column x is element x + 1 of the row
\* a board cell holds 0 or a color string; the model writes the 0 of a cell as
\* the string "0", so that a cell compares with both
Zero == "0"
EmptyRow == [c \in 1..BOARD_WIDTH |-> Zero]
createEmptyBoard == [r \in 1..BOARD_HEIGHT |-> EmptyRow]

\* randomTetromino, for the key the random draw returned
randomTetromino(key) ==
    [shape |-> TETROMINOS[key].shape, color |-> TETROMINOS[key].color, name |-> key]

\* useState(null) for currentPiece: the value that stands for null
NoPiece == [x |-> 0, y |-> 0, tetromino |-> [shape |-> << >>, color |-> "", name |-> "null"]]

VARIABLES
    board,          \* useState(createEmptyBoard())
    currentPiece,   \* useState(null)
    score,          \* useState(0)
    gameOver,       \* useState(false)
    dropTime,       \* useState(INITIAL_DROP_TIME), as a fraction num/den
    level,          \* useState(1)
    completedRows,  \* useState([])
    timeouts,       \* the callbacks setTimeout(..., 300) holds, oldest first
    locks,          \* how many times placePiece has run
    resets,         \* how many times resetGame has run
    last            \* history: the handler that ran last, the key its random
                    \* draw returned, and the state it started in

game == <<board, currentPiece, score, gameOver, dropTime, level, completedRows,
          timeouts, locks, resets>>
vars == <<game, last>>

\* the state a handler starts in, as the history records it
State ==
    [board |-> board, currentPiece |-> currentPiece, score |-> score,
     gameOver |-> gameOver, dropTime |-> dropTime, level |-> level,
     completedRows |-> completedRows, timeouts |-> timeouts, resets |-> resets]

----------------------------------------------------------------------------
(* checkCollision, lines 83-101: scan the shape row by row, column by      *)
(* column, and return true at the first occupied cell that is outside the  *)
(* side walls, below the floor, or on an occupied board cell.              *)
RECURSIVE collisionFrom(_, _, _, _, _, _)
collisionFrom(b, x, y, shape, row, col) ==
    IF row > Len(shape) THEN FALSE
    ELSE IF col > Len(shape[row]) THEN collisionFrom(b, x, y, shape, row + 1, 1)
    ELSE LET newX == x + (col - 1)
             newY == y + (row - 1)
         IN  IF shape[row][col] # 0
                /\ (\/ newX < 0
                    \/ newX >= BOARD_WIDTH
                    \/ newY >= BOARD_HEIGHT
                    \/ (newY >= 0 /\ (newY + 1) \in DOMAIN b /\ b[newY + 1][newX + 1] # Zero))
             THEN TRUE
             ELSE collisionFrom(b, x, y, shape, row, col + 1)

\* checkCollision without the test of the floor (newY >= BOARD_HEIGHT)
checkCollisionNoFloor(b, x, y, shape) ==
    \E row \in 1..Len(shape) : \E col \in 1..Len(shape[row]) :
        /\ shape[row][col] # 0
        /\ \/ x + (col - 1) < 0
           \/ x + (col - 1) >= BOARD_WIDTH
           \/ /\ y + (row - 1) >= 0
              /\ (y + row) \in DOMAIN b
              /\ b[y + row][x + col] # Zero

checkCollision(b, x, y, shape) == collisionFrom(b, x, y, shape, 1, 1)

isValidMove(b, x, y, shape) == ~checkCollision(b, x, y, shape)

\* lines 134-136: rotated[i][j] = shape[rows - 1 - j][i]
rotated(shape) ==
    [i \in 1..Len(shape[1]) |-> [j \in 1..Len(shape) |-> shape[Len(shape) + 1 - j][i]]]


RECURSIVE GCD(_, _)
GCD(a, b) == IF b = 0 THEN a ELSE GCD(b, a % b)

\* prev * SPEED_INCREASE_FACTOR (line 224) on fractions in lowest terms
timesFactor(prev) ==
    LET n == prev.num * SPEED_INCREASE_FACTOR.num
        d == prev.den * SPEED_INCREASE_FACTOR.den
        g == GCD(n, d)
    IN  [num |-> n \div g, den |-> d \div g]

\* the occupied cells of a shape at origin (x, y), as <<boardY, boardX>>
shapeCells(x, y, shape) ==
    {<<y + (r - 1), x + (c - 1)>> : <<r, c>> \in
        {rc \in (1..Len(shape)) \X (1..4) : rc[2] <= Len(shape[rc[1]]) /\ shape[rc[1]][rc[2]] # 0}}

\* lines 173-186 of placePiece: the copy of the board with the piece's color
\* written at every occupied cell of its shape that lies on the board
newBoardOf(b, piece) ==
    LET cells == shapeCells(piece.x, piece.y, piece.tetromino.shape)
    IN  [r \in 1..Len(b) |->
            [c \in 1..Len(b[r]) |->
                IF /\ <<r - 1, c - 1>> \in cells
                   /\ r - 1 >= 0 /\ r - 1 < BOARD_HEIGHT
                   /\ c - 1 >= 0 /\ c - 1 < BOARD_WIDTH
                THEN piece.tetromino.color
                ELSE b[r][c]]]

\* lines 196-202 of checkCompletedRows: the indices of the rows without a 0,
\* in ascending order
RECURSIVE completedFrom(_, _)
completedFrom(b, index) ==
    IF index >= Len(b) THEN << >>
    ELSE IF \A c \in 1..Len(b[index + 1]) : b[index + 1][c] # Zero
         THEN <<index>> \o completedFrom(b, index + 1)
         ELSE completedFrom(b, index + 1)

\* the scan that stops at the first row it finds complete
completedRowIndicesFirst(b) ==
    IF completedFrom(b, 0) = << >> THEN << >> ELSE <<Head(completedFrom(b, 0))>>

completedRowIndices(b) == completedFrom(b, 0)

includes(seq, v) == \E i \in 1..Len(seq) : seq[i] = v

\* lines 208-213: boardToCheck without the completed rows, then empty rows
\* unshifted until the board has BOARD_HEIGHT rows
RECURSIVE filterRows(_, _, _)
filterRows(b, indices, index) ==
    IF index >= Len(b) THEN << >>
    ELSE IF ~includes(indices, index)
         THEN <<b[index + 1]>> \o filterRows(b, indices, index + 1)
         ELSE filterRows(b, indices, index + 1)

RECURSIVE unshiftRows(_)
unshiftRows(b) == IF Len(b) < BOARD_HEIGHT THEN unshiftRows(<<EmptyRow>> \o b) ELSE b

\* the clear that pushes the empty rows at the bottom instead of the top
clearedBoardPush(boardToCheck, indices) ==
    LET kept == filterRows(boardToCheck, indices, 0)
    IN  kept \o [i \in 1..(BOARD_HEIGHT - Len(kept)) |-> EmptyRow]

clearedBoard(boardToCheck, indices) == unshiftRows(filterRows(boardToCheck, indices, 0))

\* lines 235-239 of spawnNewPiece
newPieceOf(key) ==
    LET newTetromino == randomTetromino(key)
    IN  [x |-> (BOARD_WIDTH \div 2) - (Len(newTetromino.shape[1]) \div 2),
         y |-> 0,
         tetromino |-> newTetromino]

----------------------------------------------------------------------------
Init ==
    /\ board = createEmptyBoard
    /\ currentPiece = NoPiece
    /\ score = 0
    /\ gameOver = FALSE
    /\ dropTime = [num |-> INITIAL_DROP_TIME, den |-> 1]
    /\ level = 1
    /\ completedRows = << >>
    /\ timeouts = << >>
    /\ locks = 0
    /\ resets = 0
    /\ last = [op |-> "mount", key |-> "null", pre |-> State]

\* the history of a step of handler op whose random draw returned key
Ran(op, key) == last' = [op |-> op, key |-> key, pre |-> State]

\* spawnNewPiece, lines 233-246, run on the closure that holds board b.  prev
\* is the value the state setter queue of the handler holds for currentPiece:
\* what an earlier setCurrentPiece of the same handler left.
spawnNewPiece(b, key, prev) ==
    LET newPiece == newPieceOf(key)
    IN  IF checkCollision(b, newPiece.x, newPiece.y, newPiece.tetromino.shape)
        THEN gameOver' = TRUE /\ currentPiece' = prev
        ELSE currentPiece' = newPiece /\ UNCHANGED gameOver

\* checkCompletedRows, lines 194-230: with a completed row, mark the rows and
\* hand setTimeout a callback that holds boardToCheck, the indices, and the
\* score and level of the render that made the callback (resets is history:
\* the number of resets when the callback was scheduled)
checkCompletedRows(boardToCheck) ==
    LET indices == completedRowIndices(boardToCheck)
    IN  IF Len(indices) > 0
        THEN /\ completedRows' = indices
             /\ timeouts' = Append(timeouts,
                    [boardToCheck |-> boardToCheck, completedRowIndices |-> indices,
                     score |-> score, level |-> level, delay |-> CLEAR_DELAY,
                     resets |-> resets])
        ELSE UNCHANGED <<completedRows, timeouts>>

\* placePiece, lines 170-191, on the closure of the current render: it reads
\* currentPiece and board as rendered, whatever the handler has queued since
placePiece(key, prev) ==
    LET newBoard == newBoardOf(board, currentPiece)
    IN  /\ board' = newBoard
        /\ checkCompletedRows(newBoard)
        /\ spawnNewPiece(board, key, prev)
        /\ locks' = locks + 1
        /\ UNCHANGED <<score, level, dropTime, resets>>

\* moveLeft, lines 106-110
moveLeft ==
    /\ IF /\ currentPiece # NoPiece
          /\ isValidMove(board, currentPiece.x - 1, currentPiece.y, currentPiece.tetromino.shape)
       THEN currentPiece' = [currentPiece EXCEPT !.x = @ - 1]
       ELSE UNCHANGED currentPiece
    /\ UNCHANGED <<board, score, gameOver, dropTime, level, completedRows, timeouts, locks, resets>>

\* moveRight, lines 113-117
moveRight ==
    /\ IF /\ currentPiece # NoPiece
          /\ isValidMove(board, currentPiece.x + 1, currentPiece.y, currentPiece.tetromino.shape)
       THEN currentPiece' = [currentPiece EXCEPT !.x = @ + 1]
       ELSE UNCHANGED currentPiece
    /\ UNCHANGED <<board, score, gameOver, dropTime, level, completedRows, timeouts, locks, resets>>

\* moveDown that places the piece one row early, when it could still move
\* down one row but not two
moveDownEarly(key) ==
    IF currentPiece = NoPiece THEN UNCHANGED game
    ELSE IF /\ isValidMove(board, currentPiece.x, currentPiece.y + 1, currentPiece.tetromino.shape)
            /\ isValidMove(board, currentPiece.x, currentPiece.y + 2, currentPiece.tetromino.shape)
         THEN /\ currentPiece' = [currentPiece EXCEPT !.y = @ + 1]
              /\ UNCHANGED <<board, score, gameOver, dropTime, level, completedRows,
                             timeouts, locks, resets>>
         ELSE placePiece(key, currentPiece)

\* moveDown, lines 120-127, when the random draw of a spawn returns key
moveDown(key) ==
    IF currentPiece = NoPiece THEN UNCHANGED game
    ELSE IF isValidMove(board, currentPiece.x, currentPiece.y + 1, currentPiece.tetromino.shape)
         THEN /\ currentPiece' = [currentPiece EXCEPT !.y = @ + 1]
              /\ UNCHANGED <<board, score, gameOver, dropTime, level, completedRows,
                             timeouts, locks, resets>>
         ELSE placePiece(key, currentPiece)

\* rotate that tries the shift to the right before the shift to the left
rotateResultRightFirst(b, piece) ==
    LET r == rotated(piece.tetromino.shape)
        turned(x, y) == [x |-> x, y |-> y, tetromino |-> [piece.tetromino EXCEPT !.shape = r]]
    IN  IF isValidMove(b, piece.x, piece.y, r) THEN turned(piece.x, piece.y)
        ELSE IF isValidMove(b, piece.x + 1, piece.y, r) THEN turned(piece.x + 1, piece.y)
        ELSE IF isValidMove(b, piece.x - 1, piece.y, r) THEN turned(piece.x - 1, piece.y)
        ELSE IF isValidMove(b, piece.x, piece.y - 1, r) THEN turned(piece.x, piece.y - 1)
        ELSE piece

\* rotate that shifts up without testing the shifted position
rotateResultBlindUp(b, piece) ==
    LET r == rotated(piece.tetromino.shape)
        turned(x, y) == [x |-> x, y |-> y, tetromino |-> [piece.tetromino EXCEPT !.shape = r]]
    IN  IF isValidMove(b, piece.x, piece.y, r) THEN turned(piece.x, piece.y)
        ELSE IF isValidMove(b, piece.x - 1, piece.y, r) THEN turned(piece.x - 1, piece.y)
        ELSE IF isValidMove(b, piece.x + 1, piece.y, r) THEN turned(piece.x + 1, piece.y)
        ELSE turned(piece.x, piece.y - 1)

\* rotate, lines 130-167: the piece that rotate sets, or the piece itself
rotateResult(b, piece) ==
    LET r == rotated(piece.tetromino.shape)
        newX == piece.x
        newY == piece.y
        turned(x, y) == [x |-> x, y |-> y, tetromino |-> [piece.tetromino EXCEPT !.shape = r]]
    IN  IF ~isValidMove(b, newX, newY, r)
        THEN IF isValidMove(b, newX - 1, newY, r) THEN turned(newX - 1, newY)
             ELSE IF isValidMove(b, newX + 1, newY, r) THEN turned(newX + 1, newY)
             ELSE IF isValidMove(b, newX, newY - 1, r) THEN turned(newX, newY - 1)
             ELSE piece
        ELSE turned(newX, newY)

rotate ==
    /\ IF currentPiece = NoPiece THEN UNCHANGED currentPiece
       ELSE currentPiece' = rotateResult(board, currentPiece)
    /\ UNCHANGED <<board, score, gameOver, dropTime, level, completedRows, timeouts, locks, resets>>

\* lines 291-295: the y the loop ends with
RECURSIVE dropY(_, _, _)
dropY(b, piece, newY) ==
    IF isValidMove(b, piece.x, newY + 1, piece.tetromino.shape)
    THEN dropY(b, piece, newY + 1)
    ELSE newY

\* dropToBottom that places the piece whether or not it moved down
dropToBottomAlways(key) ==
    IF currentPiece = NoPiece THEN UNCHANGED game
    ELSE placePiece(key, [currentPiece EXCEPT !.y = dropY(board, currentPiece, currentPiece.y)])

\* dropToBottom, lines 289-301: setCurrentPiece queues the dropped piece, then
\* placePiece runs on the closure of the render
dropToBottom(key) ==
    IF currentPiece = NoPiece THEN UNCHANGED game
    ELSE LET newY == dropY(board, currentPiece, currentPiece.y)
         IN  IF newY # currentPiece.y
             THEN placePiece(key, [currentPiece EXCEPT !.y = newY])
             ELSE UNCHANGED game

\* a key, a touch button or a tick of the interval is handled while fewer
\* than maxLocks pieces have been locked, and in every game that is over
InPlay(maxLocks) == locks < maxLocks \/ gameOver

\* ArrowLeft without the test of the game-over flag
KeyLeftUngated(maxLocks) ==
    /\ InPlay(maxLocks)
    /\ moveLeft
    /\ Ran("moveLeft", "null")

\* handleKeyPress "ArrowLeft", lines 266-273, and handleTouchLeft, 383-385
KeyLeft(maxLocks) ==
    /\ InPlay(maxLocks)
    /\ IF gameOver THEN UNCHANGED game ELSE moveLeft
    /\ Ran("moveLeft", "null")

\* handleKeyPress "ArrowRight", lines 274-277, and handleTouchRight, 387-389
KeyRight(maxLocks) ==
    /\ InPlay(maxLocks)
    /\ IF gameOver THEN UNCHANGED game ELSE moveRight
    /\ Ran("moveRight", "null")

\* handleKeyPress "ArrowDown", lines 278-281, and handleTouchDown, 395-397
KeyDown(keys, maxLocks) ==
    /\ InPlay(maxLocks)
    /\ \E key \in keys :
        /\ IF gameOver THEN UNCHANGED game ELSE moveDown(key)
        /\ Ran("softDrop", IF locks' = locks THEN "null" ELSE key)

\* handleKeyPress "ArrowUp", lines 282-285, and handleTouchRotate, 391-393
KeyUp(maxLocks) ==
    /\ InPlay(maxLocks)
    /\ IF gameOver THEN UNCHANGED game ELSE rotate
    /\ Ran("rotate", "null")

\* handleKeyPress " ", lines 286-303
KeySpace(keys, maxLocks) ==
    /\ InPlay(maxLocks)
    /\ \E key \in keys :
        /\ IF gameOver THEN UNCHANGED game ELSE dropToBottom(key)
        /\ Ran("hardDrop", IF locks' = locks THEN "null" ELSE key)

\* the interval of lines 256-262: it runs moveDown while the game is not over
TimerTick(keys, maxLocks) ==
    /\ InPlay(maxLocks)
    /\ ~gameOver
    /\ \E key \in keys :
        /\ moveDown(key)
        /\ Ran("timer", IF locks' = locks THEN "null" ELSE key)

\* the callback that removes the rows and leaves the rows marked
clearRowsKeepMarker ==
    /\ timeouts # << >>
    /\ LET t == Head(timeouts)
           newScore == t.score + Len(t.completedRowIndices) * ROW_SCORE * t.level
       IN  /\ board' = clearedBoard(t.boardToCheck, t.completedRowIndices)
           /\ score' = newScore
           /\ IF (newScore \div LEVEL_SCORE) > t.level - 1
              THEN level' = level + 1 /\ dropTime' = timesFactor(dropTime)
              ELSE UNCHANGED <<level, dropTime>>
    /\ timeouts' = Tail(timeouts)
    /\ UNCHANGED <<completedRows, currentPiece, gameOver, locks, resets>>
    /\ Ran("clear", "null")

\* the callback of setTimeout, lines 207-226; callbacks of equal delay run in
\* the order they were scheduled
clearRows ==
    /\ timeouts # << >>
    /\ LET t == Head(timeouts)
           newBoard == clearedBoard(t.boardToCheck, t.completedRowIndices)
           newScore == t.score + Len(t.completedRowIndices) * ROW_SCORE * t.level
       IN  /\ board' = newBoard
           /\ completedRows' = << >>
           /\ score' = newScore
           /\ IF (newScore \div LEVEL_SCORE) > t.level - 1
              THEN level' = level + 1 /\ dropTime' = timesFactor(dropTime)
              ELSE UNCHANGED <<level, dropTime>>
    /\ timeouts' = Tail(timeouts)
    /\ UNCHANGED <<currentPiece, gameOver, locks, resets>>
    /\ Ran("clear", "null")

\* resetGame, lines 328-337; the interval it clears is set again by the effect
\* of lines 256-262, and no timeout is cleared
resetGame ==
    /\ resets < MaxResets
    /\ board' = createEmptyBoard
    /\ currentPiece' = NoPiece
    /\ score' = 0
    /\ gameOver' = FALSE
    /\ dropTime' = [num |-> INITIAL_DROP_TIME, den |-> 1]
    /\ level' = 1
    /\ completedRows' = << >>
    /\ resets' = resets + 1
    /\ UNCHANGED <<timeouts, locks>>
    /\ Ran("reset", "null")

\* the effect of lines 249-253, after a render without piece and not over
spawnEffect(keys) ==
    /\ currentPiece = NoPiece /\ ~gameOver
    /\ \E key \in keys :
        /\ spawnNewPiece(board, key, currentPiece)
        /\ Ran("spawn", key)
    /\ UNCHANGED <<board, score, dropTime, level, completedRows, timeouts, locks, resets>>

\* the game with every tetromino in the random draw
Next ==
    \/ spawnEffect(Keys)
    \/ KeyLeft(MaxLocks)
    \/ KeyRight(MaxLocks)
    \/ KeyDown(Keys, MaxLocks)
    \/ KeyUp(MaxLocks)
    \/ KeySpace(Keys, MaxLocks)
    \/ TimerTick(Keys, MaxLocks)
    \/ clearRows
    \/ resetGame

Spec == Init /\ [][Next]_vars

\* the game whose timeouts fire: a callback handed to setTimeout (line 207)
\* runs once its delay has passed, and no code clears a timeout
SpecClear == Spec /\ WF_vars(clearRows)

\* the game whose interval keeps firing: setInterval (line 259) runs moveDown
\* again and again while the game is not over, the effect of lines 249-253
\* runs after the render that needs it, and the timeouts fire
SpecFall ==
    /\ Spec
    /\ WF_vars(TimerTick(Keys, MaxLocks))
    /\ WF_vars(spawnEffect(Keys))
    /\ WF_vars(clearRows)

\* the games in which every random draw returns "I", which fills a row of
\* the model's board by itself, and the player presses neither ArrowLeft nor
\* ArrowRight: longer games, for the score and the level
LineKeys == {"I"}

NextLines ==
    \/ spawnEffect(LineKeys)
    \/ KeyDown(LineKeys, LinesMaxLocks)
    \/ KeyUp(LinesMaxLocks)
    \/ KeySpace(LineKeys, LinesMaxLocks)
    \/ TimerTick(LineKeys, LinesMaxLocks)
    \/ clearRows
    \/ resetGame

SpecLines == Init /\ [][NextLines]_vars

----------------------------------------------------------------------------
(* checkCollision as a function of its inputs: the board of the closure,   *)
(* the origin and the shape.                                               *)

\* the shapes rotate can give a tetromino
Rotations(shape) ==
    {shape, rotated(shape), rotated(rotated(shape)), rotated(rotated(rotated(shape)))}

\* the empty board with the cells of set S occupied
boardWith(S) ==
    [r \in 1..BOARD_HEIGHT |-> [c \in 1..BOARD_WIDTH |->
        IF <<r, c>> \in S THEN TETROMINOS["I"].color ELSE Zero]]

\* the boards with at most MaxFilled occupied cells
ProbeBoards ==
    LET cells == (1..BOARD_HEIGHT) \X (1..BOARD_WIDTH)
    IN  {boardWith({f[i] : i \in 1..MaxFilled} \ {<<0, 0>>}) :
            f \in [1..MaxFilled -> cells \cup {<<0, 0>>}]}

\* every tetromino in every rotation at every origin around the board
Probes ==
    {[x |-> x, y |-> y, tetromino |-> [randomTetromino(key) EXCEPT !.shape = shape]] :
        x \in (0 - ProbeMargin)..(BOARD_WIDTH - 1 + ProbeMargin),
        y \in (0 - ProbeMargin)..(BOARD_HEIGHT - 1 + ProbeMargin),
        <<key, shape>> \in UNION {{<<k, sh>> : sh \in Rotations(TETROMINOS[k].shape)} : k \in Keys}}

InitCollision ==
    /\ board \in ProbeBoards
    /\ currentPiece \in Probes
    /\ score = 0
    /\ gameOver = FALSE
    /\ dropTime = [num |-> INITIAL_DROP_TIME, den |-> 1]
    /\ level = 1
    /\ completedRows = << >>
    /\ timeouts = << >>
    /\ locks = 0
    /\ resets = 0
    /\ last = [op |-> "mount", key |-> "null", pre |-> State, result |-> FALSE]

\* one call of checkCollision on the board, for the probe's origin and shape
callCheckCollision ==
    /\ last.op = "mount"
    /\ last' = [op |-> "checkCollision", key |-> "null", pre |-> State,
                result |-> checkCollision(board, currentPiece.x, currentPiece.y,
                                          currentPiece.tetromino.shape)]
    /\ UNCHANGED game

NextCollision == callCheckCollision

SpecCollision == InitCollision /\ [][NextCollision]_vars

----------------------------------------------------------------------------
(* The claims.  They are stated on the history: last.pre is the state the  *)
(* last handler started in, the other variables are the state it left.     *)

\* the occupied cells <<r, c>> of a shape, rows and columns counted from 0
Occupied(shape) ==
    {rc \in (0..3) \X (0..3) :
        /\ rc[1] + 1 <= Len(shape)
        /\ rc[2] + 1 <= Len(shape[rc[1] + 1])
        /\ shape[rc[1] + 1][rc[2] + 1] # 0}

\* the board cell of row r and column c, counted from 0
Cell(b, r, c) == b[r + 1][c + 1]

\* collision as section 4.3 of the specification states it
Collides(b, x, y, shape) ==
    \E rc \in Occupied(shape) :
        \/ x + rc[2] < 0
        \/ x + rc[2] >= BOARD_WIDTH
        \/ y + rc[1] >= BOARD_HEIGHT
        \/ (y + rc[1] >= 0 /\ Cell(b, y + rc[1], x + rc[2]) # Zero)

\* the last handler locked a piece: placePiece ran and drew a key
Locked == last.op \in {"softDrop", "timer", "hardDrop"} /\ last.key # "null"

\* the piece the last handler started with
PrePiece == last.pre.currentPiece

\* the largest y reached from the origin of piece p by steps of one row that
\* are valid on board b
LandingY(b, p) ==
    CHOOSE m \in p.y..BOARD_HEIGHT :
        /\ \A k \in (p.y + 1)..m : ~Collides(b, p.x, k, p.tetromino.shape)
        /\ Collides(b, p.x, m + 1, p.tetromino.shape)

\* board b with the color of piece p written at the cells of its shape at
\* origin (p.x, y)
WrittenAt(b, p, y) ==
    [r \in 1..BOARD_HEIGHT |-> [c \in 1..BOARD_WIDTH |->
        IF \E rc \in Occupied(p.tetromino.shape) : y + rc[1] = r - 1 /\ p.x + rc[2] = c - 1
        THEN p.tetromino.color
        ELSE b[r][c]]]

\* the last handler was a hard drop of a piece that could move down
HardDropped ==
    /\ last.op = "hardDrop"
    /\ ~last.pre.gameOver
    /\ PrePiece # NoPiece
    /\ ~Collides(last.pre.board, PrePiece.x, PrePiece.y + 1, PrePiece.tetromino.shape)

\* C1: a hard drop of a piece that can move down writes into the board exactly
\* the cells of the shape at the landing origin (x, yMax), and nothing at the
\* origin the piece had before the drop.
C1_HardDropLocksAtLanding ==
    HardDropped =>
        board = WrittenAt(last.pre.board, PrePiece, LandingY(last.pre.board, PrePiece))

\* the piece section 4.6 of the specification spawns for a key: at the
\* horizontal center, at the top
SpawnOf(key) ==
    [x |-> (BOARD_WIDTH \div 2) - (Len(TETROMINOS[key].shape[1]) \div 2),
     y |-> 0,
     tetromino |-> [shape |-> TETROMINOS[key].shape, color |-> TETROMINOS[key].color,
                    name |-> key]]

\* C2: when a piece is locked and the next one spawned in the same step, the
\* game is over exactly if the new piece at its spawn origin collides with the
\* board as the lock left it; if it does not, the new piece is the active one.
C2_GameOverIffSpawnCollides ==
    Locked =>
        LET new == SpawnOf(last.key)
            hit == Collides(board, new.x, new.y, new.tetromino.shape)
        IN  /\ gameOver <=> hit
            /\ ~hit => currentPiece = new

\* the deferred clear that the last step ran
Fired == Head(last.pre.timeouts)

\* C3: a deferred clear that fires after a reset that followed its lock changes
\* neither the board, the score, the level, the drop interval nor the
\* pending-clear set.
C3_ResetCancelsPendingClear ==
    (last.op = "clear" /\ Fired.resets < last.pre.resets) =>
        /\ board = last.pre.board
        /\ score = last.pre.score
        /\ level = last.pre.level
        /\ dropTime = last.pre.dropTime
        /\ completedRows = last.pre.completedRows

\* C4: a deferred clear of k rows, with no reset since its lock, adds
\* k x 100 x the current level to the score it finds.
C4_ClearAddsItsRows ==
    (last.op = "clear" /\ Fired.resets = last.pre.resets) =>
        score = last.pre.score
                + Len(Fired.completedRowIndices) * ROW_SCORE * last.pre.level

\* C5: a deferred clear whose new score exceeds the threshold of the level
\* (floor(newScore / 500) > level - 1) raises the level by exactly 1 and
\* multiplies the drop interval by the decay factor once; any other clear
\* leaves the level and the drop interval unchanged.
C5_SingleStepLevelUp ==
    last.op = "clear" =>
        IF (score \div LEVEL_SCORE) > last.pre.level - 1
        THEN /\ level = last.pre.level + 1
             /\ dropTime.num * last.pre.dropTime.den * SPEED_INCREASE_FACTOR.den
                    = last.pre.dropTime.num * SPEED_INCREASE_FACTOR.num * dropTime.den
        ELSE /\ level = last.pre.level
             /\ dropTime = last.pre.dropTime

\* C6: between two resets no step takes the score or the level to a smaller
\* value: every step but a reset leaves both at least as large as it found them.
C6_ScoreAndLevelNeverDecrease ==
    last.op # "reset" => score >= last.pre.score /\ level >= last.pre.level

\* the probe has an occupied cell above the top row, in a column of the board
\* that holds an occupied cell
AboveOccupiedColumn ==
    \E rc \in Occupied(currentPiece.tetromino.shape) :
        /\ currentPiece.y + rc[1] < 0
        /\ currentPiece.x + rc[2] \in 0..(BOARD_WIDTH - 1)
        /\ \E r \in 0..(BOARD_HEIGHT - 1) : Cell(board, r, currentPiece.x + rc[2]) # Zero

\* C7: checkCollision(x, y, shape) is true exactly if some occupied cell of
\* the shape lies left of column 0, right of the last column, below the last
\* row, or on an occupied cell of the board; a cell above the top row in a
\* column of the board never collides.
C7_CollidesIffOutsideOrOccupied ==
    last.op = "checkCollision" =>
        last.result = Collides(board, currentPiece.x, currentPiece.y,
                               currentPiece.tetromino.shape)

\* a call that found no collision for a shape with a cell above the top row,
\* over an occupied column
C7_Witness ==
    /\ last.op = "checkCollision"
    /\ ~last.result
    /\ AboveOccupiedColumn

\* the clockwise quarter turn of section 4.4: transpose, then reverse each row
Transposed(shape) ==
    [i \in 1..Len(shape[1]) |-> [j \in 1..Len(shape) |-> shape[j][i]]]

Clockwise(shape) ==
    LET t == Transposed(shape)
    IN  [i \in 1..Len(t) |-> [j \in 1..Len(t[i]) |-> t[i][Len(t[i]) + 1 - j]]]

\* the origins rotate tries, in its order: in place, left, right, up
RotateOrigins(p) ==
    << <<p.x, p.y>>, <<p.x - 1, p.y>>, <<p.x + 1, p.y>>, <<p.x, p.y - 1>> >>

\* piece p turned clockwise at the first origin of RotateOrigins at which the
\* turned shape does not collide on board b, or p when it collides at all four
FirstFit(b, p) ==
    LET R == Clockwise(p.tetromino.shape)
        at == RotateOrigins(p)
        fits == {i \in 1..4 : ~Collides(b, at[i][1], at[i][2], R)}
    IN  IF fits = {} THEN p
        ELSE LET i == CHOOSE k \in fits : \A m \in fits : k <= m
             IN  [x |-> at[i][1], y |-> at[i][2],
                  tetromino |-> [shape |-> R, color |-> p.tetromino.color,
                                 name |-> p.tetromino.name]]

\* the last handler was a rotate of an active piece in a running game
Rotated == last.op = "rotate" /\ ~last.pre.gameOver /\ PrePiece # NoPiece

\* C8: rotate sets the active piece to the clockwise turn of its shape at the
\* first of (x, y), (x-1, y), (x+1, y), (x, y-1) at which the turned shape does
\* not collide, and leaves the piece unchanged when it collides at all four;
\* board, score, level and game-over flag are unchanged either way.
C8_RotateFallbackOrder ==
    Rotated =>
        /\ currentPiece = FirstFit(last.pre.board, PrePiece)
        /\ board = last.pre.board
        /\ score = last.pre.score
        /\ level = last.pre.level
        /\ gameOver = last.pre.gameOver

\* a rotate that took the last origin of the order, one row up
C8_Witness ==
    /\ Rotated
    /\ currentPiece.tetromino.shape = Clockwise(PrePiece.tetromino.shape)
    /\ currentPiece.x = PrePiece.x
    /\ currentPiece.y = PrePiece.y - 1

\* the shapes a shape turns into: one, two, three and four quarter turns
Turns(shape) ==
    {Clockwise(shape), Clockwise(Clockwise(shape)),
     Clockwise(Clockwise(Clockwise(shape))),
     Clockwise(Clockwise(Clockwise(Clockwise(shape))))}

\* on board b a rotate took piece p to piece q: q is p itself, or a turn of p
\* with as many occupied cells, at an origin where it does not collide
ValidOrUnchanged(b, p, q) ==
    \/ q = p
    \/ /\ ~Collides(b, q.x, q.y, q.tetromino.shape)
       /\ q.tetromino.shape \in Turns(p.tetromino.shape)
       /\ Cardinality(Occupied(q.tetromino.shape)) = Cardinality(Occupied(p.tetromino.shape))
       /\ q.tetromino.name = p.tetromino.name

\* C9: a rotate of an active piece that does not collide leaves a piece that
\* does not collide and is a turn of the original, or the piece unchanged; and
\* so does the rotate that follows it (the second quarter turn).
C9_RotatePreservesValidity ==
    (/\ Rotated
     /\ ~Collides(last.pre.board, PrePiece.x, PrePiece.y, PrePiece.tetromino.shape)) =>
        /\ ValidOrUnchanged(board, PrePiece, currentPiece)
        /\ ValidOrUnchanged(board, currentPiece, rotateResult(board, currentPiece))

\* a T that did not collide, after its second quarter turn: 180 degrees from
\* the shape it spawned with, at an origin where it does not collide
C9_Witness ==
    /\ Rotated
    /\ ~Collides(last.pre.board, PrePiece.x, PrePiece.y, PrePiece.tetromino.shape)
    /\ PrePiece.tetromino.shape = Clockwise(TETROMINOS["T"].shape)
    /\ currentPiece.tetromino.shape = Clockwise(Clockwise(TETROMINOS["T"].shape))
    /\ ~Collides(board, currentPiece.x, currentPiece.y, currentPiece.tetromino.shape)

\* b has BOARD_HEIGHT rows of BOARD_WIDTH cells
WellFormed(b) ==
    /\ Len(b) = BOARD_HEIGHT
    /\ \A r \in 1..Len(b) : Len(b[r]) = BOARD_WIDTH

\* the row indices the fired clear removes
Removed == {Fired.completedRowIndices[i] : i \in 1..Len(Fired.completedRowIndices)}

\* C10: the board a clear leaves has BOARD_HEIGHT rows of BOARD_WIDTH cells,
\* its top k rows are empty, and every row the clear did not remove is found
\* unchanged as many rows lower as rows were removed below it, so that the
\* rows kept are in their original order; and the board of every reachable
\* state has BOARD_HEIGHT x BOARD_WIDTH cells.
C10_ClearKeepsHeightAndOrder ==
    /\ WellFormed(board)
    /\ last.op = "clear" =>
          /\ \A r \in 0..(Cardinality(Removed) - 1) :
                \A c \in 0..(BOARD_WIDTH - 1) : Cell(board, r, c) = Zero
          /\ \A r \in (0..(BOARD_HEIGHT - 1)) \ Removed :
                board[r + 1 + Cardinality({m \in Removed : m > r})] = Fired.boardToCheck[r + 1]

\* a clear that kept an occupied row and moved it down
C10_Witness ==
    /\ last.op = "clear"
    /\ \E r \in (0..(BOARD_HEIGHT - 1)) \ Removed :
          /\ \E m \in Removed : m > r
          /\ \E c \in 0..(BOARD_WIDTH - 1) : Cell(Fired.boardToCheck, r, c) # Zero
          /\ \E c \in 0..(BOARD_WIDTH - 1) : Cell(Fired.boardToCheck, r, c) = Zero


\* the commands of the player and the fall step of the interval
Commands == {"moveLeft", "moveRight", "softDrop", "rotate", "hardDrop", "timer"}

\* C11: a command or a fall step handled in a game that is over leaves the
\* board, the active piece, the score and the level as it found them, and a
\* step that starts in a game that is over leaves the game over unless it is
\* a reset.
C11_GameOverBlocksPlay ==
    last.pre.gameOver =>
        /\ last.op \in Commands =>
              /\ board = last.pre.board
              /\ currentPiece = last.pre.currentPiece
              /\ score = last.pre.score
              /\ level = last.pre.level
        /\ last.op # "reset" => gameOver

\* ArrowLeft pressed in a game that is over, with a piece left on the board
\* that a running game would move to the left
C11_Witness ==
    /\ last.pre.gameOver
    /\ last.op = "moveLeft"
    /\ PrePiece # NoPiece
    /\ ~Collides(last.pre.board, PrePiece.x - 1, PrePiece.y, PrePiece.tetromino.shape)


\* the last handler was a hard drop with nothing to drop: no active piece, or
\* a piece that collides one row lower
HardDropInapplicable ==
    /\ last.op = "hardDrop"
    /\ \/ PrePiece = NoPiece
       \/ Collides(last.pre.board, PrePiece.x, PrePiece.y + 1, PrePiece.tetromino.shape)

\* C12: a hard drop of a piece that cannot move down one row, or without an
\* active piece, locks nothing and leaves the board, the active piece, the
\* score, the level, the pending-clear set and the game-over flag unchanged.
C12_NoRedundantLock ==
    HardDropInapplicable =>
        /\ last.key = "null"
        /\ board = last.pre.board
        /\ currentPiece = last.pre.currentPiece
        /\ score = last.pre.score
        /\ level = last.pre.level
        /\ completedRows = last.pre.completedRows
        /\ gameOver = last.pre.gameOver

\* a hard drop in a running game of a piece that rests on the floor or on
\* the stack
C12_Witness ==
    /\ HardDropInapplicable
    /\ ~last.pre.gameOver
    /\ PrePiece # NoPiece


\* the last handler was a downward step of an active piece in a running game
SteppedDown ==
    /\ last.op \in {"softDrop", "timer"}
    /\ ~last.pre.gameOver
    /\ PrePiece # NoPiece

\* C13: a downward step of the piece at (x, y), by the interval or by
\* ArrowDown, moves the piece to (x, y + 1) and leaves shape, board and score
\* unchanged when the shape does not collide at (x, y + 1); otherwise it locks
\* the piece at (x, y).  So a downward step locks only a piece that collides
\* one row lower.
C13_StepDownOrLockAtRest ==
    SteppedDown =>
        IF ~Collides(last.pre.board, PrePiece.x, PrePiece.y + 1, PrePiece.tetromino.shape)
        THEN /\ last.key = "null"
             /\ currentPiece = [PrePiece EXCEPT !.y = @ + 1]
             /\ board = last.pre.board
             /\ score = last.pre.score
        ELSE /\ last.key # "null"
             /\ board = WrittenAt(last.pre.board, PrePiece, PrePiece.y)

\* a fall step of the interval that locked a piece resting on the stack, with
\* every cell of the shape above the floor
C13_Witness ==
    /\ SteppedDown
    /\ last.op = "timer"
    /\ last.key # "null"
    /\ \A rc \in Occupied(PrePiece.tetromino.shape) : PrePiece.y + rc[1] + 1 < BOARD_HEIGHT


\* the indices of the rows of b, counted from 0, in which every cell is
\* occupied
FullRows(b) ==
    {r \in 0..(BOARD_HEIGHT - 1) : \A c \in 0..(BOARD_WIDTH - 1) : Cell(b, r, c) # Zero}

\* the set of the members of a sequence
Members(seq) == {seq[i] : i \in 1..Len(seq)}

\* C14: after a lock the pending-clear set is the set of the indices of the
\* full rows of the board the lock left; a lock that leaves no full row
\* neither changes the pending-clear set nor schedules a deferred clear, and
\* leaves score and level unchanged.
C14_PendingClearIsFullRows ==
    Locked =>
        /\ Members(completedRows) = FullRows(board)
        /\ FullRows(board) = {} =>
              /\ completedRows = last.pre.completedRows
              /\ timeouts = last.pre.timeouts
              /\ score = last.pre.score
              /\ level = last.pre.level

\* a lock that completed a second row while the row of an earlier lock was
\* still pending
C14_Witness ==
    /\ Locked
    /\ last.pre.completedRows # << >>
    /\ Cardinality(FullRows(board)) = 2
    /\ Members(last.pre.completedRows) # FullRows(board)


\* no clear is pending or outstanding and no row of the board is full
AllCleared == completedRows = << >> /\ timeouts = << >> /\ FullRows(board) = {}

\* C15: when rows are marked as pending clear then, unless a reset follows, a
\* state follows in which no row is marked, no deferred clear is outstanding
\* and the board holds no full row, the marked rows being removed; and in
\* every state without marked rows and without an outstanding deferred clear
\* the board holds no full row.
C15_PendingClearCompletes ==
    /\ (completedRows # << >>) ~> (last.op = "reset" \/ AllCleared)
    /\ []((completedRows = << >> /\ timeouts = << >>) => FullRows(board) = {})

\* a deferred clear has fired in a game without reset: it removed the two
\* rows its lock had marked and left nothing pending
C15_Witness ==
    /\ last.op = "clear"
    /\ resets = 0
    /\ Len(Fired.completedRowIndices) = 2
    /\ Members(last.pre.completedRows) = Members(Fired.completedRowIndices)
    /\ AllCleared


\* C16: in every state of a running game with an active piece, no occupied
\* cell of the piece lies left of column 0, right of the last column or below
\* the last row, and none lies on an occupied cell of the board.
C16_PieceNeverOverlapsBoard ==
    (currentPiece # NoPiece /\ ~gameOver) =>
        ~Collides(board, currentPiece.x, currentPiece.y, currentPiece.tetromino.shape)


\* C17: a deferred clear discards no cell outside the rows it removes: every
\* cell that is occupied when the clear fires, the cells of the pieces locked
\* since the clear was scheduled among them, and that is not in a removed row
\* is occupied afterwards, as many rows lower as rows were removed below it;
\* and a step that is neither a lock, a clear nor a reset leaves the board
\* unchanged.
C17_ClearKeepsLaterLocks ==
    /\ last.op = "clear" =>
          \A r \in (0..(BOARD_HEIGHT - 1)) \ Removed : \A c \in 0..(BOARD_WIDTH - 1) :
              Cell(last.pre.board, r, c) # Zero =>
                  Cell(board, r + Cardinality({m \in Removed : m > r}), c) # Zero
    /\ (last.op \notin {"clear", "reset"} /\ ~Locked) => board = last.pre.board


\* the drop interval after k multiplications of the initial interval by the
\* decay factor, as a fraction in lowest terms
RECURSIVE DecayedInterval(_)
DecayedInterval(k) ==
    IF k = 0 THEN [num |-> INITIAL_DROP_TIME, den |-> 1]
    ELSE LET p == DecayedInterval(k - 1)
             n == p.num * SPEED_INCREASE_FACTOR.num
             d == p.den * SPEED_INCREASE_FACTOR.den
         IN  [num |-> n \div GCD(n, d), den |-> d \div GCD(n, d)]

\* C18: in every state the level is at most 1 + floor(score / 500), and the
\* drop interval is the initial interval multiplied level - 1 times by the
\* decay factor: as many multiplications since the last reset as levels
\* gained.
C18_LevelNeverAheadOfScore ==
    /\ level <= 1 + (score \div LEVEL_SCORE)
    /\ dropTime = DecayedInterval(level - 1)


\* the number of occupied cells of board b
OccupiedCount(b) ==
    Cardinality({rc \in (0..(BOARD_HEIGHT - 1)) \X (0..(BOARD_WIDTH - 1)) :
                    Cell(b, rc[1], rc[2]) # Zero})

\* C19: the board a lock leaves, before any row is removed, has exactly four
\* occupied cells more than the board the lock found: no cell of the piece is
\* dropped above the top row and none is written over an occupied cell.
C19_LockAddsFourCells ==
    Locked => OccupiedCount(board) = OccupiedCount(last.pre.board) + 4


\* C20: in a game without reset whose interval keeps firing, every active
\* piece is eventually locked or the game becomes over, whatever the player
\* does in between: for each number k of pieces locked so far, a state with
\* an active piece and k locks is followed by a state with more locks, by a
\* game over, or by a reset.
C20_EveryPieceLocks ==
    \A k \in 0..(MaxLocks - 1) :
        (currentPiece # NoPiece /\ ~gameOver /\ locks = k /\ resets = 0)
            ~> (locks > k \/ gameOver \/ resets > 0)

====
